---- MODULE Spec2Model ----
(***************************************************************************)
(* Guess The Number (src/guest_the_number.py): the six number cards, the   *)
(* binary decoder get_result, and the screen/answer state machine of       *)
(* GuessTheNumberGame driven by button clicks and single-shot timers.      *)
(*                                                                         *)
(* Python strings are modelled as sequences of one-character strings, so   *)
(* '101' is <<"1", "0", "1">> and str(37) is <<"3", "7">>.                  *)
(***************************************************************************)
EXTENDS Integers, Sequences, FiniteSets, TLC

VARIABLES
    answer,         \* self.answer, set by __init__ and never used again
    has_answers,    \* whether the attribute self.answers exists
    answers,        \* self.answers (<<>> while the attribute does not exist)
    card_num,       \* self.card_num
    screen,         \* stacked_widget.currentIndex()
    game_screen,    \* index of the card drawn on the GAME widget, NoCard if blank
    result_screen,  \* text of the result label on the RESULT widget, <<>> if blank
    result_arg,     \* history: the string last passed to get_result
    enabled,        \* centralWidget().isEnabled()
    timers,         \* pending QTimer.singleShot callbacks, in registration order
    closed,         \* the window was closed with EXIT
    crashed,        \* a slot raised (AttributeError / IndexError)
    round_log,      \* history: <<card on display, answer>> per click of this round
    dec_in,         \* decoder harness: the answer string handed to get_result
    dec_out,        \* decoder harness: what get_result returned for dec_in
    perm_in,        \* decoder harness: a permutation of dec_in
    perm_out,       \* decoder harness: what get_result returned for perm_in
    probe_k,        \* card harness: the card index looked at
    probe_n,        \* card harness: the integer looked for
    occurrences,    \* card harness: CARDS_NUMS[probe_k].count(str(probe_n))
    cards_with,     \* card harness: indices of the cards listing str(probe_n)
    pc              \* harness position: "ui", "ready", "decoded", "looked"

ui_vars == <<answer, has_answers, answers, card_num, screen, game_screen,
             result_screen, result_arg, enabled, timers, closed, crashed,
             round_log>>
decode_vars == <<dec_in, dec_out, perm_in, perm_out>>
card_vars == <<probe_k, probe_n, occurrences, cards_with>>
vars == <<ui_vars, decode_vars, card_vars, pc>>

----------------------------------------------------------------------------
(* Bounds of the exploration *)

\* longest answer string handed to the decoder harness
MaxLen == 6
\* largest integer looked up on the cards
MaxProbe == 70
\* clicks on Yes/No the user makes in one round at most
MaxClicks == 8

----------------------------------------------------------------------------
(* Python built-ins used by the program *)

Digit(d) == <<"0", "1", "2", "3", "4", "5", "6", "7", "8", "9">>[d + 1]

\* str(n) for an int n >= 0: its decimal digits, most significant first
RECURSIVE str(_)
str(n) == IF n < 10 THEN <<Digit(n)>> ELSE str(n \div 10) \o <<Digit(n % 10)>>

\* s.count(x)
count(s, x) == Cardinality({i \in DOMAIN s : s[i] = x})

\* list(map(str, numbers))
map_str(numbers) == [i \in DOMAIN numbers |-> str(numbers[i])]

\* s[::step] for step # 0: every |step|-th element, from the front when step
\* is positive and from the back when it is negative
Slice(s, step) ==
    LET n == Len(s)
        m == IF step > 0 THEN step ELSE -step
        cnt == IF n = 0 THEN 0 ELSE ((n - 1) \div m) + 1
    IN  [j \in 1..cnt |-> IF step > 0 THEN s[1 + (j - 1) * m]
                                      ELSE s[n - (j - 1) * m]]

----------------------------------------------------------------------------
(* Class constants *)

CARD_0 ==
    map_str(<<
       1, 3, 5, 7, 9, 11, 13, 15, 17, 19, 21, 23, 25, 27, 29, 31, 33, 35, 37,
       39, 41, 43, 45, 47, 49, 51, 53, 55, 57, 59, 61, 63 >>)

\* CARD_1 with one number typed twice: 18, 18 for 18, 19
CARD_1_typo ==
    map_str(<<
       2, 3, 6, 7, 10, 11, 14, 15, 18, 18, 22, 23, 26, 27, 30, 31, 34, 35,
       38, 39, 42, 43, 46, 47, 50, 51, 54, 55, 58, 59, 62, 63 >>)

CARD_1 ==
    map_str(<<
       2, 3, 6, 7, 10, 11, 14, 15, 18, 19, 22, 23, 26, 27, 30, 31, 34, 35,
       38, 39, 42, 43, 46, 47, 50, 51, 54, 55, 58, 59, 62, 63 >>)

CARD_2 ==
    map_str(<<
       4, 5, 6, 7, 12, 13, 14, 15, 20, 21, 22, 23, 28, 29, 30, 31, 36, 37,
       38, 39, 44, 45, 46, 47, 52, 53, 54, 55, 60, 61, 62, 63 >>)

CARD_3 ==
    map_str(<<
       8, 9, 10, 11, 12, 13, 14, 15, 24, 25, 26, 27, 28, 29, 30, 31, 40, 41,
       42, 43, 44, 45, 46, 47, 56, 57, 58, 59, 60, 61, 62, 63 >>)

CARD_4 ==
    map_str(<<
       16, 17, 18, 19, 20, 21, 22, 23, 24, 25, 26, 27, 28, 29, 30, 31, 48,
       49, 50, 51, 52, 53, 54, 55, 56, 57, 58, 59, 60, 61, 62, 63 >>)

\* CARD_5 starting one number late: 33 for 32
CARD_5_from33 ==
    map_str(<<
       33, 34, 35, 36, 37, 38, 39, 40, 41, 42, 43, 44, 45, 46, 47, 48, 49,
       50, 51, 52, 53, 54, 55, 56, 57, 58, 59, 60, 61, 62, 63 >>)

CARD_5 ==
    map_str(<<
       32, 33, 34, 35, 36, 37, 38, 39, 40, 41, 42, 43, 44, 45, 46, 47, 48,
       49, 50, 51, 52, 53, 54, 55, 56, 57, 58, 59, 60, 61, 62, 63 >>)

CARDS_NUMS == <<CARD_0, CARD_1, CARD_2, CARD_3, CARD_4, CARD_5>>

MAIN_MENU == 0
INTRODUCTION == 1
GAME == 2
RESULT == 3

\* the number of cards a round shows: `if self.card_num >= 6`
NumCards == 6

\* "Think of a number between 1 and 63."
MaxNumber == 63

\* the GAME widget before update_game_screen ever ran: a blank QWidget
NoCard == -1

----------------------------------------------------------------------------
(* get_result *)

\* get_result with the slice actually reversing: binary_string[::-1]
get_result_reversed(binary_string) ==
    LET rev == Slice(binary_string, -1)
        RECURSIVE loop(_, _)
        loop(i, decimal) ==
            IF i >= Len(rev) THEN decimal
            ELSE loop(i + 1, IF rev[i + 1] = "1" THEN decimal + 2 ^ i ELSE decimal)
    IN  str(loop(0, 0))

\* get_result counting positions from one: enumerate(binary_string, 1)
get_result_from_one(binary_string) ==
    LET bs == Slice(binary_string, 1)
        RECURSIVE loop(_, _)
        loop(i, decimal) ==
            IF i >= Len(bs) THEN decimal
            ELSE loop(i + 1, IF bs[i + 1] = "1" THEN decimal + 2 ^ (i + 1) ELSE decimal)
    IN  str(loop(0, 0))

\* get_result multiplying instead of raising to a power: decimal += 2 * i
get_result_times(binary_string) ==
    LET bs == Slice(binary_string, 1)
        RECURSIVE loop(_, _)
        loop(i, decimal) ==
            IF i >= Len(bs) THEN decimal
            ELSE loop(i + 1, IF bs[i + 1] = "1" THEN decimal + 2 * i ELSE decimal)
    IN  str(loop(0, 0))

\* for i, bit in enumerate(binary_string): if bit == '1': decimal += 2 ** i
RECURSIVE decode_loop(_, _, _)
decode_loop(binary_string, i, decimal) ==
    IF i >= Len(binary_string) THEN decimal
    ELSE decode_loop(binary_string, i + 1,
                     IF binary_string[i + 1] = "1" THEN decimal + 2 ^ i
                                                   ELSE decimal)

get_result(binary_string) == str(decode_loop(Slice(binary_string, 1), 0, 0))

----------------------------------------------------------------------------
(* GuessTheNumberGame: the state after __init__ *)

UiInit ==
    /\ answer = <<>>
    /\ has_answers = FALSE
    /\ answers = <<>>
    /\ card_num = 0
    /\ screen = MAIN_MENU
    /\ game_screen = NoCard
    /\ result_screen = <<>>
    /\ result_arg = <<>>
    /\ enabled = TRUE
    /\ timers = <<>>
    /\ closed = FALSE
    /\ crashed = FALSE
    /\ round_log = <<>>

DecodeIdle == dec_in = <<>> /\ dec_out = <<>> /\ perm_in = <<>> /\ perm_out = <<>>

CardsIdle == probe_k = 0 /\ probe_n = 0 /\ occurrences = 0 /\ cards_with = {}

Init == UiInit /\ DecodeIdle /\ CardsIdle /\ pc = "ui"

----------------------------------------------------------------------------
(* GuessTheNumberGame: the slots.  Each is the relation between the state  *)
(* before and after the call on the variables it may assign; the caller    *)
(* states what else is unchanged.  A slot that raises ends the program.    *)

\* start_game resetting only card_num, the answers kept from the round before
start_game_keep_answers ==
    /\ has_answers' = TRUE
    /\ answers' = answers
    /\ card_num' = 0
    /\ screen' = INTRODUCTION
    /\ round_log' = <<>>

\* start_game resetting the attribute the constructor names: self.answer = ''
start_game_answer ==
    /\ has_answers' = has_answers
    /\ answers' = answers
    /\ card_num' = 0
    /\ screen' = INTRODUCTION
    /\ round_log' = <<>>

start_game ==
    /\ has_answers' = TRUE
    /\ answers' = <<>>
    /\ card_num' = 0
    /\ screen' = INTRODUCTION
    /\ round_log' = <<>>

\* assigns game_screen, screen, crashed
update_game_screen ==
    IF card_num \in 0..(Len(CARDS_NUMS) - 1)
    THEN /\ game_screen' = card_num
         /\ screen' = GAME
         /\ crashed' = crashed
    ELSE /\ crashed' = TRUE
         /\ UNCHANGED <<game_screen, screen>>

\* assigns result_screen, result_arg, crashed
update_result_screen ==
    IF has_answers
    THEN /\ result_screen' = get_result(answers)
         /\ result_arg' = answers
         /\ crashed' = crashed
    ELSE /\ crashed' = TRUE
         /\ UNCHANGED <<result_screen, result_arg>>

\* show_next_card stopping one card early: if self.card_num >= 5
show_next_card_early ==
    IF card_num >= NumCards - 1
    THEN /\ update_result_screen
         /\ screen' = IF has_answers THEN RESULT ELSE screen
         /\ game_screen' = game_screen
    ELSE /\ update_game_screen
         /\ UNCHANGED <<result_screen, result_arg>>

\* assigns screen, game_screen, result_screen, result_arg, crashed
show_next_card ==
    IF card_num >= NumCards
    THEN /\ update_result_screen
         /\ screen' = IF has_answers THEN RESULT ELSE screen
         /\ game_screen' = game_screen
    ELSE /\ update_game_screen
         /\ UNCHANGED <<result_screen, result_arg>>

\* process_answer putting the new answer in front: self.answers = answer + self.answers
process_answer_prepend(a) ==
    IF has_answers
    THEN /\ answers' = <<a>> \o answers
         /\ card_num' = card_num + 1
         /\ enabled' = FALSE
         /\ timers' = timers \o <<"show_next_card", "setEnabled">>
         /\ round_log' = Append(round_log, <<game_screen, a>>)
         /\ crashed' = crashed
    ELSE /\ crashed' = TRUE
         /\ UNCHANGED <<answers, card_num, enabled, timers, round_log>>

\* process_answer leaving the central widget enabled while the timers run
process_answer_enabled(a) ==
    IF has_answers
    THEN /\ answers' = Append(answers, a)
         /\ card_num' = card_num + 1
         /\ enabled' = enabled
         /\ timers' = timers \o <<"show_next_card", "setEnabled">>
         /\ round_log' = Append(round_log, <<game_screen, a>>)
         /\ crashed' = crashed
    ELSE /\ crashed' = TRUE
         /\ UNCHANGED <<answers, card_num, enabled, timers, round_log>>

\* assigns answers, card_num, enabled, timers, round_log, crashed
process_answer(a) ==
    IF has_answers
    THEN /\ answers' = Append(answers, a)
         /\ card_num' = card_num + 1
         /\ enabled' = FALSE
         /\ timers' = timers \o <<"show_next_card", "setEnabled">>
         /\ round_log' = Append(round_log, <<game_screen, a>>)
         /\ crashed' = crashed
    ELSE /\ crashed' = TRUE
         /\ UNCHANGED <<answers, card_num, enabled, timers, round_log>>

go_to_main_menu == screen' = MAIN_MENU

----------------------------------------------------------------------------
(* The event loop.  A button is clicked only on the screen on display and  *)
(* only while the central widget is enabled (a widget put under a disabled *)
(* parent is disabled with it).  Clicks may arrive before, between and     *)
(* after the two timeouts of process_answer.  The two timers are started   *)
(* one after the other with the same interval, and Qt's timer list keeps   *)
(* timers of equal timeout in the order they were started, so `timers` is  *)
(* a queue: show_next_card times out before the re-enabling lambda.        *)

Running == ~closed /\ ~crashed

Clickable(s) == Running /\ enabled /\ screen = s

ClickPlay ==
    /\ Clickable(MAIN_MENU)
    /\ start_game
    /\ UNCHANGED <<answer, game_screen, result_screen, result_arg, enabled,
                   timers, closed, crashed>>
    /\ UNCHANGED <<decode_vars, card_vars, pc>>

ClickExit ==
    /\ Clickable(MAIN_MENU)
    /\ closed' = TRUE
    /\ UNCHANGED <<answer, has_answers, answers, card_num, screen, game_screen,
                   result_screen, result_arg, enabled, timers, crashed,
                   round_log>>
    /\ UNCHANGED <<decode_vars, card_vars, pc>>

ClickStart ==
    /\ Clickable(INTRODUCTION)
    /\ show_next_card
    /\ UNCHANGED <<answer, has_answers, answers, card_num, enabled, timers,
                   closed, round_log>>
    /\ UNCHANGED <<decode_vars, card_vars, pc>>

ClickYes ==
    /\ Clickable(GAME)
    /\ Len(round_log) < MaxClicks
    /\ process_answer("1")
    /\ UNCHANGED <<answer, has_answers, screen, game_screen, result_screen,
                   result_arg, closed>>
    /\ UNCHANGED <<decode_vars, card_vars, pc>>

ClickNo ==
    /\ Clickable(GAME)
    /\ Len(round_log) < MaxClicks
    /\ process_answer("0")
    /\ UNCHANGED <<answer, has_answers, screen, game_screen, result_screen,
                   result_arg, closed>>
    /\ UNCHANGED <<decode_vars, card_vars, pc>>

ClickPlayAgain ==
    /\ Clickable(RESULT)
    /\ start_game
    /\ UNCHANGED <<answer, game_screen, result_screen, result_arg, enabled,
                   timers, closed, crashed>>
    /\ UNCHANGED <<decode_vars, card_vars, pc>>

ClickMainMenu ==
    /\ Clickable(RESULT)
    /\ go_to_main_menu
    /\ UNCHANGED <<answer, has_answers, answers, card_num, game_screen,
                   result_screen, result_arg, enabled, timers, closed, crashed,
                   round_log>>
    /\ UNCHANGED <<decode_vars, card_vars, pc>>

TimeoutShowNextCard ==
    /\ Running
    /\ timers # <<>>
    /\ Head(timers) = "show_next_card"
    /\ timers' = Tail(timers)
    /\ show_next_card
    /\ UNCHANGED <<answer, has_answers, answers, card_num, enabled, closed,
                   round_log>>
    /\ UNCHANGED <<decode_vars, card_vars, pc>>

TimeoutSetEnabled ==
    /\ Running
    /\ timers # <<>>
    /\ Head(timers) = "setEnabled"
    /\ timers' = Tail(timers)
    /\ enabled' = TRUE
    /\ UNCHANGED <<answer, has_answers, answers, card_num, screen, game_screen,
                   result_screen, result_arg, closed, crashed, round_log>>
    /\ UNCHANGED <<decode_vars, card_vars, pc>>

Next ==
    \/ ClickPlay
    \/ ClickExit
    \/ ClickStart
    \/ ClickYes
    \/ ClickNo
    \/ ClickPlayAgain
    \/ ClickMainMenu
    \/ TimeoutShowNextCard
    \/ TimeoutSetEnabled

Spec == Init /\ [][Next]_vars

----------------------------------------------------------------------------
(* The decoder on its own: get_result applied to an answer string and to a *)
(* permutation of it.                                                      *)

AnswerStrings == UNION {[1..n -> {"0", "1"}] : n \in 0..MaxLen}

InitDecode ==
    /\ UiInit /\ CardsIdle
    /\ dec_in \in AnswerStrings
    /\ dec_out = <<>> /\ perm_in = <<>> /\ perm_out = <<>>
    /\ pc = "ready"

Decode ==
    /\ pc = "ready"
    /\ dec_out' = get_result(dec_in)
    /\ \E p \in Permutations(DOMAIN dec_in) :
          /\ perm_in' = [i \in DOMAIN dec_in |-> dec_in[p[i]]]
          /\ perm_out' = get_result([i \in DOMAIN dec_in |-> dec_in[p[i]]])
    /\ pc' = "decoded"
    /\ UNCHANGED <<dec_in, ui_vars, card_vars>>

NextDecode == Decode

SpecDecode == InitDecode /\ [][NextDecode]_vars

----------------------------------------------------------------------------
(* The card table on its own: looking an integer up on the cards.          *)

InitCards ==
    /\ UiInit /\ DecodeIdle
    /\ probe_k \in 0..(Len(CARDS_NUMS) - 1)
    /\ probe_n \in 0..MaxProbe
    /\ occurrences = 0 /\ cards_with = {}
    /\ pc = "ready"

Lookup ==
    /\ pc = "ready"
    /\ occurrences' = count(CARDS_NUMS[probe_k + 1], str(probe_n))
    /\ cards_with' = {k \in 0..(Len(CARDS_NUMS) - 1) :
                         count(CARDS_NUMS[k + 1], str(probe_n)) > 0}
    /\ pc' = "looked"
    /\ UNCHANGED <<probe_k, probe_n, ui_vars, decode_vars>>

NextCards == Lookup

SpecCards == InitCards /\ [][NextCards]_vars

----------------------------------------------------------------------------
(* Vocabulary of the properties *)

\* bit k of n: (n >> k) & 1
Bit(n, k) == (n \div (2 ^ k)) % 2

\* the answer string of n: character k is '1' iff bit k of n is set
BitString(n) == [i \in 1..NumCards |-> IF Bit(n, i - 1) = 1 THEN "1" ELSE "0"]

\* 1 where answer i (counted from 0) is '1', else 0
Yes(s, i) == IF s[i + 1] = "1" THEN 1 ELSE 0

\* sum over i in 0..5 of 2^i for the positions answered '1'
PositionalSum(s) ==
    Yes(s, 0) * 1 + Yes(s, 1) * 2 + Yes(s, 2) * 4 + Yes(s, 3) * 8
        + Yes(s, 4) * 16 + Yes(s, 5) * 32

\* the answers of this round's clicks, in the order they were given
AnswersOf(log) == [i \in DOMAIN log |-> log[i][2]]

\* every click of this round answered truthfully for the number n
Truthful(n) ==
    \A i \in DOMAIN round_log :
        /\ round_log[i][1] \in 0..(Len(CARDS_NUMS) - 1)
        /\ round_log[i][2] =
              IF count(CARDS_NUMS[round_log[i][1] + 1], str(n)) > 0 THEN "1" ELSE "0"

----------------------------------------------------------------------------
C8_OrderSensitive ==
    (pc = "decoded" /\ Len(dec_in) = NumCards) =>
        (perm_out = dec_out <=> perm_in = dec_in)

C8_Witness ==
    /\ pc = "decoded"
    /\ dec_in = <<"1", "0", "0", "1", "0", "0">>
    /\ perm_in = <<"0", "1", "1", "0", "0", "0">>
    /\ perm_out # dec_out

(* C2: for every card k in 0..5 and every integer n, n is listed on        *)
(* CARDS_NUMS[k] iff 1 <= n <= 63 and bit k of n is 1; the table has       *)
(* exactly 6 cards, and no card lists a number outside 1..63 or lists a    *)
(* number twice.                                                           *)
C2_CardContents ==
    pc = "looked" =>
        /\ occurrences >= 1 <=>
              (1 <= probe_n /\ probe_n <= MaxNumber /\ Bit(probe_n, probe_k) = 1)
        /\ occurrences <= 1
        /\ Len(CARDS_NUMS) = 6
        /\ \A i \in DOMAIN CARDS_NUMS[probe_k + 1] :
              \E m \in 1..MaxNumber : CARDS_NUMS[probe_k + 1][i] = str(m)

C2_Witness ==
    pc = "looked" /\ probe_k = 1 /\ probe_n = 19 /\ occurrences = 1

(* C7: every integer in 1..63 is listed on at least one of the six cards,  *)
(* and 0 is listed on none.                                                *)
C7_Coverage ==
    pc = "looked" =>
        /\ probe_n \in 1..MaxNumber => cards_with # {}
        /\ probe_n = 0 => cards_with = {}

C7_Witness ==
    pc = "looked" /\ probe_n = 32 /\ cards_with = {5}

(* C3: end-to-end correctness.  For every number n in 1..63, when every     *)
(* click of the round answered truthfully for n (Yes iff n is listed on    *)
(* the card on display), the number on the result screen is n; so it is    *)
(* never 0.                                                                *)
C3_EndToEnd ==
    \A n \in 1..MaxNumber :
        (screen = RESULT /\ Truthful(n)) =>
            /\ result_screen = str(n)
            /\ result_screen # <<"0">>

C3_Witness ==
    /\ screen = RESULT
    /\ Len(round_log) = NumCards
    /\ Truthful(37)
    /\ result_screen = <<"3", "7">>

(* C5: get_result is invoked only with exactly 6 answers, character i of   *)
(* its argument being the answer given while card i was on display;        *)
(* len(answers) = card_num and 0 <= card_num <= 6 always hold, the cards   *)
(* are shown in the order 0..5, and the result screen is never shown with  *)
(* fewer or more than 6 answers.                                           *)
C5_SixOrderedAnswers ==
    /\ Len(answers) = card_num
    /\ card_num \in 0..NumCards
    /\ Len(round_log) = Len(answers)
    /\ \A i \in DOMAIN round_log : round_log[i] = <<i - 1, answers[i]>>
    /\ screen = GAME => game_screen \in 0..(NumCards - 1)
    /\ result_screen # <<>> => Len(result_arg) = NumCards
    /\ screen = RESULT =>
          /\ Len(answers) = NumCards
          /\ result_arg = answers
          /\ \A i \in 0..(NumCards - 1) : round_log[i + 1] = <<i, result_arg[i + 1]>>

C5_Witness ==
    /\ screen = RESULT
    /\ result_arg = <<"1", "0", "1", "0", "0", "1">>
    /\ AnswersOf(round_log) = result_arg

(* C6: one round, one answer sequence.  Every round begins with an empty   *)
(* answer sequence and card_num = 0; the result on display is decoded from *)
(* the answers given in that round alone; and wherever start_game can be   *)
(* triggered (main menu, result screen) no round is under way: either no   *)
(* answer has been given or the six answers have been consumed.            *)
C6_OneRoundOneSequence ==
    /\ screen = INTRODUCTION =>
          (has_answers /\ answers = <<>> /\ card_num = 0 /\ round_log = <<>>)
    /\ screen = RESULT =>
          /\ answers = AnswersOf(round_log)
          /\ result_screen = get_result(AnswersOf(round_log))
    /\ screen \in {MAIN_MENU, RESULT} =>
          \/ answers = <<>> /\ card_num = 0
          \/ Len(answers) = NumCards /\ result_arg = answers

\* a later round has begun: the sequence of the round before was consumed
\* and the new one is empty
C6_Witness ==
    /\ screen = INTRODUCTION
    /\ Len(result_arg) = NumCards
    /\ answers = <<>>
    /\ card_num = 0

(* C9: the deferred dispatch does not change the result.  After a click    *)
(* the central widget stays disabled until the two timers have run, so     *)
(* each card on display receives exactly one answer, card_num never        *)
(* exceeds 6, and the result on display is get_result of exactly the six   *)
(* answers the user gave.                                                  *)
C9_OneAnswerPerCard ==
    /\ timers \in {<<>>, <<"show_next_card", "setEnabled">>, <<"setEnabled">>}
    /\ enabled <=> timers = <<>>
    /\ \A i, j \in DOMAIN round_log :
          i # j => round_log[i][1] # round_log[j][1]
    /\ card_num <= NumCards
    /\ (timers = <<"setEnabled">> /\ screen = GAME) => game_screen = card_num
    /\ screen = RESULT =>
          /\ Len(round_log) = NumCards
          /\ result_screen = get_result(AnswersOf(round_log))

\* the result is on display and the re-enabling timer has not run yet
C9_Witness ==
    /\ screen = RESULT
    /\ timers = <<"setEnabled">>
    /\ ~enabled
    /\ Len(round_log) = NumCards

(* C10: the answer accumulator is defined whenever it is used.  __init__   *)
(* sets `answer`, start_game is the first to set `answers`, and until      *)
(* start_game has run only the main menu is on display, so process_answer  *)
(* and update_result_screen never raise.                                   *)
C10_AnswersDefined ==
    /\ ~crashed
    /\ answer = <<>>
    /\ ~has_answers =>
          /\ screen = MAIN_MENU
          /\ timers = <<>>
          /\ card_num = 0
          /\ game_screen = NoCard
          /\ result_screen = <<>>
    /\ (screen # MAIN_MENU \/ timers # <<>>) => has_answers

C10_Witness ==
    /\ has_answers
    /\ answers = <<"1">>
    /\ card_num = 1
    /\ ~crashed

====
